---- MODULE Spec2Model ----
(***************************************************************************)
(* Users/Tasks REST back end (express + mongoose).  Two collections keep   *)
(* denormalised pointers to each other: a Task stores assignedUser and     *)
(* assignedUserName, a User stores pendingTasks.  Every mutating handler   *)
(* runs inside one multi-document transaction.                             *)
(*                                                                         *)
(* The committed collections are `users` and `tasks`.  A request in flight *)
(* lives in `req[r]`: its position in the handler, its payload, and the    *)
(* transaction's view (snapshot plus own writes).  One action per store    *)
(* call of every handler: the awaits are the only interleaving points.     *)
(***************************************************************************)
EXTENDS Integers, Sequences, FiniteSets, TLC

\* ---------------------------------------------------------------- bounds
\* Requests begun in one run of the sequential specification.
MaxOps == 4
\* Requests begun in one run of the concurrent specification.
MaxConcOps == 2
\* Requests begun in one run of the specification with fairness.
MaxLiveOps == 3

\* ObjectIds in creation order; an id is never handed out twice.
UserIdSeq == <<"u1", "u2">>
TaskIdSeq == <<"t1", "t2">>
UserIds == {UserIdSeq[i] : i \in DOMAIN UserIdSeq}
TaskIds == {TaskIdSeq[i] : i \in DOMAIN TaskIdSeq}

\* A string that is no ObjectId: casting it raises CastError.
BadId == "bad"

\* Request slots (concurrently served requests).
Reqs == {"r1", "r2"}

\* ---------------------------------------------------------------- inputs
NoPending == [isArray |-> FALSE, items |-> <<>>]
ArrayInputs ==
  { <<>>, <<"t1">>, <<"t1", "t2">>, <<"t2", "t2">>, <<BadId>> }
\* bodies of POST /api/users and PUT /api/users/:id
UserPayloads ==
  { [name |-> n, email |-> e, pend |-> [isArray |-> TRUE, items |-> l]] :
      n \in {"Ann", "Bob"}, e \in {"a@x", "B@X "}, l \in ArrayInputs }
  \cup
  { [name |-> "", email |-> "a@x", pend |-> [isArray |-> TRUE, items |-> <<>>]],
    [name |-> "Ann", email |-> "", pend |-> [isArray |-> TRUE, items |-> <<>>]],
    [name |-> "Ann", email |-> "a@x", pend |-> NoPending] }
\* completed as it arrives in the body: a boolean, a string, or absent
CompletedInputs == {"b:true", "b:false", "s: True", "undefined"}
\* bodies of POST /api/tasks and PUT /api/tasks/:id
TaskPayloads ==
  { [tname |-> "T", deadline |-> "D", assignee |-> a, completed |-> c] :
      a \in UserIds \cup {"", BadId}, c \in CompletedInputs }
  \cup
  { [tname |-> "", deadline |-> "D", assignee |-> "", completed |-> "b:false"],
    [tname |-> "T", deadline |-> "", assignee |-> "", completed |-> "b:false"] }

\* the bodies tried while another request is in flight
ConcUserPayloads ==
  { [name |-> "Ann", email |-> "a@x", pend |-> [isArray |-> TRUE, items |-> <<>>]],
    [name |-> "Bob", email |-> "a@x", pend |-> [isArray |-> TRUE, items |-> <<"t1">>]],
    [name |-> "Bob", email |-> "B@X ", pend |-> [isArray |-> TRUE, items |-> <<"t1">>]] }
ConcTaskPayloads ==
  { [tname |-> "T", deadline |-> "D", assignee |-> "u1", completed |-> "b:false"],
    [tname |-> "T", deadline |-> "D", assignee |-> "u1", completed |-> "b:true"],
    [tname |-> "T", deadline |-> "D", assignee |-> "", completed |-> "b:false"] }
UserBodies(k) == IF k = 1 THEN UserPayloads ELSE ConcUserPayloads
TaskBodies(k) == IF k = 1 THEN TaskPayloads ELSE ConcTaskPayloads
\* ids a request may name as its target
UserTargets(k) == IF k = 1 THEN UserIds \cup {BadId} ELSE UserIds
TaskTargets(k) == IF k = 1 THEN TaskIds \cup {BadId} ELSE TaskIds

\* ---------------------------------------------------------------- helpers
SeqToSet(s) == {s[i] : i \in DOMAIN s}

\* $pull: { f: { $in: S } }
Pull(s, S) == SelectSeq(s, LAMBDA x : x \notin S)

\* variant: $push
AddToSetPush(s, x) == Append(s, x)

\* $addToSet
AddToSet(s, x) == IF x \in SeqToSet(s) THEN s ELSE Append(s, x)

\* ids of S in _id order, each once (what distinct('_id') returns)
Distinct(S) == SelectSeq(TaskIdSeq, LAMBDA x : x \in S)

\* schema setters of User.email: lowercase, trim
NormEmail(e) ==
  CASE e = "B@X " -> "b@x"
    [] OTHER -> e

\* toBoolean(v, false)
toBoolean(v) ==
  CASE v = "b:true" -> TRUE
    [] v = "b:false" -> FALSE
    [] v = "s: True" -> TRUE
    [] OTHER -> FALSE

EmptyDocs == [x \in {} |-> x]
Extend(f, k, v) == [x \in DOMAIN f \cup {k} |-> IF x = k THEN v ELSE f[x]]
Remove(f, k) == [x \in DOMAIN f \ {k} |-> f[x]]

VARIABLES
  users,   \* committed User documents: id -> [name, email, pendingTasks, dateCreated]
  tasks,   \* committed Task documents: id -> [completed, assignedUser, assignedUserName, dateCreated]
  nU, nT,  \* ObjectIds generated so far for each collection
  clock,   \* requests begun so far
  req      \* request slot -> the request served in it

vars == <<users, tasks, nU, nT, clock, req>>

\* Date.now(): logical time, advancing with every document created
Now == nU + nT + 1

\* ---------------------------------------------------------------- requests
\* pc: "idle" (slot free), a handler position, "commit", or "end" (response
\* sent, session not yet ended).  txn: the session's transaction: "none",
\* "active", "committed" or "aborted".  sU/sT: the snapshot; vU/vT: the snapshot
\* with the transaction's own writes; wset: documents written; stale:
\* documents committed by others since the snapshot.
Idle ==
  [pc |-> "idle", op |-> "", id |-> "", name |-> "", email |-> "",
   pend |-> NoPending, tname |-> "", deadline |-> "", assignee |-> "",
   completed |-> "undefined",
   sU |-> EmptyDocs, sT |-> EmptyDocs, vU |-> EmptyDocs, vT |-> EmptyDocs,
   wset |-> {}, stale |-> {}, valid |-> <<>>,
   newA |-> "", newAName |-> "unassigned", prevA |-> "", orig |-> 0,
   txn |-> "none", status |-> 0, msg |-> "", err |-> ""]

\* open transactions
Open == {o \in Reqs : req[o].pc \notin {"idle", "end"}}

\* mongoose.startSession() + session.startTransaction(): the slot is free and
\* fewer than k requests are being served
CanBegin(r, k) ==
  /\ req[r].pc = "idle"
  /\ r \in (IF k = 1 THEN {"r1"} ELSE Reqs)
  /\ Cardinality({o \in Reqs : req[o].pc # "idle"}) < k
  /\ clock < (IF k = 1 THEN MaxOps ELSE MaxConcOps)

\* the request after startTransaction(): its snapshot is the committed state
Started(op, id) ==
  [Idle EXCEPT !.op = op, !.id = id, !.txn = "active",
               !.sU = users, !.sT = tasks, !.vU = users, !.vT = tasks]

WithUserBody(c, p) == [c EXCEPT !.name = p.name, !.email = p.email, !.pend = p.pend]
WithTaskBody(c, p) ==
  [c EXCEPT !.tname = p.tname, !.deadline = p.deadline,
            !.assignee = p.assignee, !.completed = p.completed]

\* ---------------------------------------------------------------- the store
\* documents that differ between two versions of a collection
ChangedDocs(old, new) ==
  {d \in DOMAIN old \cup DOMAIN new :
     \/ d \notin DOMAIN old
     \/ d \notin DOMAIN new
     \/ old[d] # new[d]}

\* write sets of the other open transactions
OthersWset(r) == UNION {req[o].wset : o \in Open \ {r}}

\* a write of `changed` by r meets a write that is not in r's snapshot
Conflict(r, changed) ==
  changed \cap (req[r].stale \cup OthersWset(r)) # {}

\* variant: the response is sent without session.abortTransaction()
RespondedOnly(c, status, msg, err) ==
  [c EXCEPT !.pc = "end", !.status = status, !.msg = msg, !.err = err,
            !.vU = c.sU, !.vT = c.sT, !.stale = {}]

\* await session.abortTransaction(); return res.status(status).json(...)
\* nothing of the transaction's view is kept (wset stays as the record of the
\* documents it had written)
Aborted(c, status, msg, err) ==
  [c EXCEPT !.pc = "end", !.txn = "aborted",
            !.status = status, !.msg = msg, !.err = err,
            !.vU = c.sU, !.vT = c.sT, !.stale = {}]

\* the status each handler's catch block answers with
CatchStatus(op, err) ==
  CASE op = "CreateUser" -> 500
    [] op = "CreateTask" -> 500
    [] op = "ReplaceUser" /\ err = "CastError" -> 404
    [] op = "ReplaceUser" /\ err = "E11000" -> 400
    [] op \in {"DeleteUser", "ReplaceTask", "DeleteTask"} /\ err = "CastError" -> 404
    [] OTHER -> 500

CatchMsg(op, err) ==
  CASE CatchStatus(op, err) = 500 -> "Server error"
    [] CatchStatus(op, err) = 400 -> "Email already exists"
    [] op \in {"ReplaceUser", "DeleteUser"} -> "User not found"
    [] OTHER -> "Task not found"

\* the first position of each handler after its checks
FirstPc(op) ==
  CASE op = "CreateUser" -> "cu_create"
    [] op = "ReplaceUser" -> "ru_unassign"
    [] op = "DeleteUser" -> "du_unassign"
    [] op = "CreateTask" -> "ct_create"
    [] op = "ReplaceTask" -> "rt_overwrite"
    [] OTHER -> "dt_pull"
FirstPcs == {FirstPc(op) : op \in {"CreateUser", "ReplaceUser", "DeleteUser",
                                   "CreateTask", "ReplaceTask", "DeleteTask"}}

\* catch (err) { await session.abortTransaction(); ... }
Caught(c, err) == Aborted(c, CatchStatus(c.op, err), CatchMsg(c.op, err), err)

\* variant: a write conflict restarts the handler body on a fresh snapshot
\* (what session.withTransaction() would do)
CatchRetry(r, err) ==
  /\ req' = [req EXCEPT ![r] =
               IF err = "WriteConflict"
                 THEN [req[r] EXCEPT !.pc = FirstPc(req[r].op),
                                     !.sU = users, !.sT = tasks,
                                     !.vU = users, !.vT = tasks,
                                     !.wset = {}, !.stale = {}, !.valid = <<>>]
                 ELSE Caught(req[r], err)]
  /\ UNCHANGED <<users, tasks>>

Catch(r, err) ==
  /\ req' = [req EXCEPT ![r] = Caught(req[r], err)]
  /\ UNCHANGED <<users, tasks>>

\* variant: the write is issued without { session }, so it is applied to the
\* committed collections at once
TxnWriteNoSession(r, newU, newT, c2) ==
  LET c == req[r]
      ch == ChangedDocs(c.vU, newU) \cup ChangedDocs(c.vT, newT)
  IN /\ req' = [req EXCEPT ![r] =
                  [c2 EXCEPT !.vU = newU, !.vT = newT, !.wset = @ \cup ch]]
     /\ users' = [d \in (DOMAIN users \ ch) \cup (DOMAIN newU \cap ch) |->
                   IF d \in ch THEN newU[d] ELSE users[d]]
     /\ tasks' = [d \in (DOMAIN tasks \ ch) \cup (DOMAIN newT \cap ch) |->
                   IF d \in ch THEN newT[d] ELSE tasks[d]]

\* a store write inside the transaction: c2 is the request after the call
TxnWrite(r, newU, newT, c2) ==
  LET c == req[r]
      ch == ChangedDocs(c.vU, newU) \cup ChangedDocs(c.vT, newT)
  IN IF Conflict(r, ch)
       THEN Catch(r, "WriteConflict")
       ELSE /\ req' = [req EXCEPT ![r] =
                         [c2 EXCEPT !.vU = newU, !.vT = newT, !.wset = @ \cup ch]]
            /\ UNCHANGED <<users, tasks>>

\* a step of the handler that writes nothing
Goto(r, c2) ==
  /\ req' = [req EXCEPT ![r] = c2]
  /\ UNCHANGED <<users, tasks>>

\* variant: no unique index on User.email
UniqueEmailOff(r, uid, e) == {""}

\* the unique index on User.email: {""} when uid may take email e, else the
\* errors the write can raise; a write that leaves the email of uid as it is
\* adds no key to the index
UniqueEmail(r, uid, e) ==
  LET c == req[r] IN
  IF uid \in DOMAIN c.vU /\ c.vU[uid].email = e THEN {""}
  ELSE IF \E u \in DOMAIN c.vU \ {uid} : c.vU[u].email = e THEN {"E11000"}
  ELSE IF \/ \E u \in DOMAIN users \ {uid} : users[u].email = e
          \/ \E o \in Open \ {r} : \E u \in (DOMAIN req[o].vU \cap req[o].wset) \ {uid} :
               req[o].vU[u].email = e
       THEN {"E11000", "WriteConflict"}
       ELSE {""}

\* ---------------------------------------------------------------- users: shared steps
\* variant: the filter without completed: false
ValidTasksAnyState(vT, items) ==
  Distinct({t \in SeqToSet(items) : t \in DOMAIN vT})

\* Task.find({ _id: { $in: pendingTasks }, completed: false }).distinct('_id')
ValidTasks(vT, items) ==
  Distinct({t \in SeqToSet(items) : t \in DOMAIN vT /\ ~vT[t].completed})

\* variant: the update sets assignedUser only
AssignTasksKeepName(vT, valid, uid, name) ==
  [t \in DOMAIN vT |->
     IF t \in SeqToSet(valid)
       THEN [vT[t] EXCEPT !.assignedUser = uid]
       ELSE vT[t]]

\* Task.updateMany({ _id: { $in: validTasks } }, { assignedUser, assignedUserName })
AssignTasks(vT, valid, uid, name) ==
  [t \in DOMAIN vT |->
     IF t \in SeqToSet(valid)
       THEN [vT[t] EXCEPT !.assignedUser = uid, !.assignedUserName = name]
       ELSE vT[t]]

\* variant: no cross-user cleanup
CrossUserCleanupOff(vU, valid, uid) == vU

\* User.updateMany({ _id: { $ne: uid }, pendingTasks: { $in: validTasks } },
\*                 { $pull: { pendingTasks: { $in: validTasks } } })
CrossUserCleanup(vU, valid, uid) ==
  [u \in DOMAIN vU |->
     IF u # uid /\ SeqToSet(vU[u].pendingTasks) \cap SeqToSet(valid) # {}
       THEN [vU[u] EXCEPT !.pendingTasks = Pull(@, SeqToSet(valid))]
       ELSE vU[u]]

\* Task.updateMany({ assignedUser: uid, completed: false },
\*                 { assignedUser: '', assignedUserName: 'unassigned' })
UnassignPending(vT, uid) ==
  [t \in DOMAIN vT |->
     IF vT[t].assignedUser = uid /\ ~vT[t].completed
       THEN [vT[t] EXCEPT !.assignedUser = "", !.assignedUserName = "unassigned"]
       ELSE vT[t]]

\* ---------------------------------------------------------------- POST /api/users
\* the document User.create stores
CreatedUser(c) ==
  [name |-> c.name, email |-> NormEmail(c.email),
   pendingTasks |-> IF c.pend.isArray THEN c.pend.items ELSE <<>>,
   dateCreated |-> Now]

CreateUserBegin(r, k) ==
  /\ CanBegin(r, k)
  /\ clock' = clock + 1
  /\ UNCHANGED <<users, tasks, nT>>
  /\ \E p \in UserBodies(k) :
       LET c0 == WithUserBody(Started("CreateUser", ""), p)
       IN IF p.name = "" \/ p.email = ""
            THEN /\ req' = [req EXCEPT ![r] = Aborted(c0, 400, "Missing required fields", "")]
                 /\ UNCHANGED nU
          ELSE IF \E u \in DOMAIN users : users[u].email = NormEmail(p.email)
            THEN /\ req' = [req EXCEPT ![r] = Aborted(c0, 400, "Email already exists", "")]
                 /\ UNCHANGED nU
          ELSE /\ nU < Len(UserIdSeq)
               /\ nU' = nU + 1
               /\ req' = [req EXCEPT ![r] =
                            [c0 EXCEPT !.pc = "cu_create", !.id = UserIdSeq[nU + 1]]]

\* User.create([{ name, email, pendingTasks }], { session })
CuCreate(r) ==
  /\ req[r].pc = "cu_create"
  /\ LET c == req[r]
         doc == CreatedUser(c)
     IN \E e \in UniqueEmail(r, c.id, doc.email) :
          IF e # "" THEN Catch(r, e)
          ELSE TxnWrite(r, Extend(c.vU, c.id, doc), c.vT, [c EXCEPT !.pc = "cu_tasks"])
  /\ UNCHANGED <<nU, nT, clock>>

\* the filter, then the task side of the assignment
CuTasks(r) ==
  /\ req[r].pc = "cu_tasks"
  /\ LET c == req[r]
         items == c.pend.items
     IN IF c.pend.isArray /\ Len(items) > 0
          THEN IF BadId \in SeqToSet(items)
                 THEN Catch(r, "CastError")
                 ELSE LET valid == ValidTasks(c.vT, items) IN
                      IF Len(valid) > 0
                        THEN TxnWrite(r, c.vU, AssignTasks(c.vT, valid, c.id, c.vU[c.id].name),
                                      [c EXCEPT !.pc = "cu_cleanup", !.valid = valid])
                        ELSE Goto(r, [c EXCEPT !.pc = "cu_norm"])
          ELSE Goto(r, [c EXCEPT !.pc = "cu_norm"])
  /\ UNCHANGED <<nU, nT, clock>>

\* Cross-user cleanup
CuCleanup(r) ==
  /\ req[r].pc = "cu_cleanup"
  /\ LET c == req[r]
     IN TxnWrite(r, CrossUserCleanup(c.vU, c.valid, c.id), c.vT, [c EXCEPT !.pc = "cu_norm"])
  /\ UNCHANGED <<nU, nT, clock>>

\* User.findByIdAndUpdate(user._id, { pendingTasks: validTasks.map(String) })
CuNorm(r) ==
  /\ req[r].pc = "cu_norm"
  /\ LET c == req[r]
     IN TxnWrite(r, [c.vU EXCEPT ![c.id].pendingTasks = c.valid], c.vT,
                 [c EXCEPT !.pc = "commit"])
  /\ UNCHANGED <<nU, nT, clock>>

\* ---------------------------------------------------------------- PUT /api/users/:id
ReplaceUserBegin(r, k) ==
  /\ CanBegin(r, k)
  /\ clock' = clock + 1
  /\ UNCHANGED <<users, tasks, nU, nT>>
  /\ \E id \in UserTargets(k) :
     \E p \in (IF id \in DOMAIN users THEN UserBodies(k)
               ELSE {[name |-> "Ann", email |-> "a@x", pend |-> [isArray |-> TRUE, items |-> <<>>]]}) :
       LET c0 == WithUserBody(Started("ReplaceUser", id), p)
       IN req' = [req EXCEPT ![r] =
            IF id = BadId THEN Caught(c0, "CastError")
            ELSE IF id \notin DOMAIN users THEN Aborted(c0, 404, "User not found", "")
            ELSE IF p.name = "" \/ p.email = "" \/ ~p.pend.isArray
              THEN Aborted(c0, 400, "Missing required fields", "")
            ELSE IF \E u \in DOMAIN users \ {id} : users[u].email = NormEmail(p.email)
              THEN Aborted(c0, 400, "Email already exists", "")
            ELSE [c0 EXCEPT !.pc = "ru_unassign", !.orig = users[id].dateCreated]]

\* variant: step 1 left out
RuUnassignOff(r) ==
  /\ req[r].pc = "ru_unassign"
  /\ req' = [req EXCEPT ![r].pc = "ru_tasks"]
  /\ UNCHANGED <<users, tasks, nU, nT, clock>>

\* 1) Unassign current NOT completed tasks of this user
RuUnassign(r) ==
  /\ req[r].pc = "ru_unassign"
  /\ LET c == req[r]
     IN TxnWrite(r, c.vU, UnassignPending(c.vT, c.id), [c EXCEPT !.pc = "ru_tasks"])
  /\ UNCHANGED <<nU, nT, clock>>

\* variant: the Tasks get the name the User had before the request
RuTasksOldName(r) ==
  /\ req[r].pc = "ru_tasks"
  /\ LET c == req[r]
         items == c.pend.items
     IN IF Len(items) > 0
          THEN IF BadId \in SeqToSet(items)
                 THEN Catch(r, "CastError")
                 ELSE LET valid == ValidTasks(c.vT, items) IN
                      IF Len(valid) > 0
                        THEN TxnWrite(r, c.vU, AssignTasks(c.vT, valid, c.id, c.vU[c.id].name),
                                      [c EXCEPT !.pc = "ru_cleanup", !.valid = valid])
                        ELSE Goto(r, [c EXCEPT !.pc = "ru_overwrite"])
          ELSE Goto(r, [c EXCEPT !.pc = "ru_overwrite"])
  /\ UNCHANGED <<nU, nT, clock>>

\* 2) the filter, 3) the task side of the assignment
RuTasks(r) ==
  /\ req[r].pc = "ru_tasks"
  /\ LET c == req[r]
         items == c.pend.items
     IN IF Len(items) > 0
          THEN IF BadId \in SeqToSet(items)
                 THEN Catch(r, "CastError")
                 ELSE LET valid == ValidTasks(c.vT, items) IN
                      IF Len(valid) > 0
                        THEN TxnWrite(r, c.vU, AssignTasks(c.vT, valid, c.id, c.name),
                                      [c EXCEPT !.pc = "ru_cleanup", !.valid = valid])
                        ELSE Goto(r, [c EXCEPT !.pc = "ru_overwrite"])
          ELSE Goto(r, [c EXCEPT !.pc = "ru_overwrite"])
  /\ UNCHANGED <<nU, nT, clock>>

\* 4) Cross-user cleanup
RuCleanup(r) ==
  /\ req[r].pc = "ru_cleanup"
  /\ LET c == req[r]
     IN TxnWrite(r, CrossUserCleanup(c.vU, c.valid, c.id), c.vT,
                 [c EXCEPT !.pc = "ru_overwrite"])
  /\ UNCHANGED <<nU, nT, clock>>

\* variant: dateCreated left to the schema default (Date.now) on overwrite
ReplacedUserDefaultDate(c) ==
  [name |-> c.name, email |-> NormEmail(c.email), pendingTasks |-> c.valid,
   dateCreated |-> Now]

\* variant: the filtered list is pushed onto the stored pendingTasks
ReplacedUserPush(c) ==
  [name |-> c.name, email |-> NormEmail(c.email),
   pendingTasks |-> c.vU[c.id].pendingTasks \o c.valid,
   dateCreated |-> c.orig]

\* the document findByIdAndUpdate(id, {...}, { overwrite: true }) stores
ReplacedUser(c) ==
  [name |-> c.name, email |-> NormEmail(c.email), pendingTasks |-> c.valid,
   dateCreated |-> c.orig]

\* 5) Overwrite user document with normalized pendingTasks
RuOverwrite(r) ==
  /\ req[r].pc = "ru_overwrite"
  /\ LET c == req[r]
         doc == ReplacedUser(c)
     IN \E e \in UniqueEmail(r, c.id, doc.email) :
          IF e # "" THEN Catch(r, e)
          ELSE TxnWrite(r, [c.vU EXCEPT ![c.id] = doc], c.vT, [c EXCEPT !.pc = "commit"])
  /\ UNCHANGED <<nU, nT, clock>>

\* ---------------------------------------------------------------- DELETE /api/users/:id
DeleteUserBegin(r, k) ==
  /\ CanBegin(r, k)
  /\ clock' = clock + 1
  /\ UNCHANGED <<users, tasks, nU, nT>>
  /\ \E id \in UserTargets(k) :
       LET c0 == Started("DeleteUser", id)
       IN req' = [req EXCEPT ![r] =
            IF id = BadId THEN Caught(c0, "CastError")
            ELSE IF id \notin DOMAIN users THEN Aborted(c0, 404, "User not found", "")
            ELSE [c0 EXCEPT !.pc = "du_unassign"]]

\* variant: the User is deleted without unassigning its Tasks
DuUnassignOff(r) ==
  /\ req[r].pc = "du_unassign"
  /\ req' = [req EXCEPT ![r].pc = "du_delete"]
  /\ UNCHANGED <<users, tasks, nU, nT, clock>>

\* Unassign all NOT completed tasks from this user
DuUnassign(r) ==
  /\ req[r].pc = "du_unassign"
  /\ LET c == req[r]
     IN TxnWrite(r, c.vU, UnassignPending(c.vT, c.id), [c EXCEPT !.pc = "du_delete"])
  /\ UNCHANGED <<nU, nT, clock>>

\* User.deleteOne({ _id: u._id }, { session })
DuDelete(r) ==
  /\ req[r].pc = "du_delete"
  /\ LET c == req[r]
     IN TxnWrite(r, Remove(c.vU, c.id), c.vT, [c EXCEPT !.pc = "commit"])
  /\ UNCHANGED <<nU, nT, clock>>

\* ---------------------------------------------------------------- tasks: shared steps
\* String(assignedUser || '') looked up with User.findById(...).session(session):
\* the assignee kept, its name, and the error the lookup throws
ResolveAssignee(vU, a) ==
  IF a = "" THEN [err |-> "", id |-> "", name |-> "unassigned"]
  ELSE IF a = BadId THEN [err |-> "CastError", id |-> "", name |-> "unassigned"]
  ELSE IF a \in DOMAIN vU THEN [err |-> "", id |-> a, name |-> vU[a].name]
  ELSE [err |-> "", id |-> "", name |-> "unassigned"]

\* User.updateOne({ _id: uid }, { $pull: { pendingTasks: tid } })
PullTask(vU, uid, tid) ==
  IF uid \in DOMAIN vU
    THEN [vU EXCEPT ![uid].pendingTasks = Pull(@, {tid})]
    ELSE vU

\* User.updateOne({ _id: uid }, { $addToSet: { pendingTasks: tid } })
AddTask(vU, uid, tid) ==
  IF uid \in DOMAIN vU
    THEN [vU EXCEPT ![uid].pendingTasks = AddToSet(@, tid)]
    ELSE vU

\* ---------------------------------------------------------------- POST /api/tasks
\* the document Task.create stores
CreatedTask(c) ==
  [completed |-> toBoolean(c.completed),
   assignedUser |-> c.newA,
   assignedUserName |-> IF c.newA # "" THEN c.newAName ELSE "unassigned",
   dateCreated |-> Now]

CreateTaskBegin(r, k) ==
  /\ CanBegin(r, k)
  /\ clock' = clock + 1
  /\ UNCHANGED <<users, tasks, nU>>
  /\ \E p \in TaskBodies(k) :
       LET c0 == WithTaskBody(Started("CreateTask", ""), p)
           a == ResolveAssignee(users, p.assignee)
       IN IF p.tname = "" \/ p.deadline = ""
            THEN /\ req' = [req EXCEPT ![r] = Aborted(c0, 400, "Missing required fields", "")]
                 /\ UNCHANGED nT
          ELSE IF a.err # ""
            THEN /\ req' = [req EXCEPT ![r] = Caught(c0, a.err)]
                 /\ UNCHANGED nT
          ELSE /\ nT < Len(TaskIdSeq)
               /\ nT' = nT + 1
               /\ req' = [req EXCEPT ![r] =
                            [c0 EXCEPT !.pc = "ct_create", !.id = TaskIdSeq[nT + 1],
                                       !.newA = a.id, !.newAName = a.name]]

\* Task.create([{ ... }], { session })
CtCreate(r) ==
  /\ req[r].pc = "ct_create"
  /\ LET c == req[r]
     IN TxnWrite(r, c.vU, Extend(c.vT, c.id, CreatedTask(c)), [c EXCEPT !.pc = "ct_sync"])
  /\ UNCHANGED <<nU, nT, clock>>

\* Sync: add to user's pendingTasks only if assigned and not completed
CtSync(r) ==
  /\ req[r].pc = "ct_sync"
  /\ LET c == req[r]
     IN IF c.newA # "" /\ ~toBoolean(c.completed)
          THEN TxnWrite(r, AddTask(c.vU, c.newA, c.id), c.vT, [c EXCEPT !.pc = "commit"])
          ELSE Goto(r, [c EXCEPT !.pc = "commit"])
  /\ UNCHANGED <<nU, nT, clock>>

\* ---------------------------------------------------------------- PUT /api/tasks/:id
\* variant: completed is not required
ReplaceTaskBeginLax(r, k) ==
  /\ CanBegin(r, k)
  /\ clock' = clock + 1
  /\ UNCHANGED <<users, tasks, nU, nT>>
  /\ \E id \in TaskTargets(k) :
     \E p \in (IF id \in DOMAIN tasks THEN TaskBodies(k)
               ELSE {[tname |-> "T", deadline |-> "D", assignee |-> "", completed |-> "b:false"]}) :
       LET c0 == WithTaskBody(Started("ReplaceTask", id), p)
           a == ResolveAssignee(users, p.assignee)
       IN req' = [req EXCEPT ![r] =
            IF id = BadId THEN Caught(c0, "CastError")
            ELSE IF id \notin DOMAIN tasks THEN Aborted(c0, 404, "Task not found", "")
            ELSE IF p.tname = "" \/ p.deadline = ""
              THEN Aborted(c0, 400, "Missing required fields", "")
            ELSE IF a.err # "" THEN Caught(c0, a.err)
            ELSE [c0 EXCEPT !.pc = "rt_overwrite", !.newA = a.id, !.newAName = a.name,
                            !.prevA = tasks[id].assignedUser,
                            !.orig = tasks[id].dateCreated]]

ReplaceTaskBegin(r, k) ==
  /\ CanBegin(r, k)
  /\ clock' = clock + 1
  /\ UNCHANGED <<users, tasks, nU, nT>>
  /\ \E id \in TaskTargets(k) :
     \E p \in (IF id \in DOMAIN tasks THEN TaskBodies(k)
               ELSE {[tname |-> "T", deadline |-> "D", assignee |-> "", completed |-> "b:false"]}) :
       LET c0 == WithTaskBody(Started("ReplaceTask", id), p)
           a == ResolveAssignee(users, p.assignee)
       IN req' = [req EXCEPT ![r] =
            IF id = BadId THEN Caught(c0, "CastError")
            ELSE IF id \notin DOMAIN tasks THEN Aborted(c0, 404, "Task not found", "")
            ELSE IF p.tname = "" \/ p.deadline = "" \/ p.completed = "undefined"
              THEN Aborted(c0, 400, "Missing required fields", "")
            ELSE IF a.err # "" THEN Caught(c0, a.err)
            ELSE [c0 EXCEPT !.pc = "rt_overwrite", !.newA = a.id, !.newAName = a.name,
                            !.prevA = tasks[id].assignedUser,
                            !.orig = tasks[id].dateCreated]]

\* the document findByIdAndUpdate(id, {...}, { overwrite: true }) stores
ReplacedTask(c) ==
  [completed |-> toBoolean(c.completed),
   assignedUser |-> c.newA,
   assignedUserName |-> IF c.newA # "" THEN c.newAName ELSE "unassigned",
   dateCreated |-> c.orig]

\* Overwrite the task BUT preserve dateCreated
RtOverwrite(r) ==
  /\ req[r].pc = "rt_overwrite"
  /\ LET c == req[r]
     IN TxnWrite(r, c.vU, [c.vT EXCEPT ![c.id] = ReplacedTask(c)],
                 [c EXCEPT !.pc = "rt_pullprev"])
  /\ UNCHANGED <<nU, nT, clock>>

\* variant: the previous assignee keeps the Task in its pendingTasks
RtPullPrevOff(r) ==
  /\ req[r].pc = "rt_pullprev"
  /\ req' = [req EXCEPT ![r].pc = "rt_sync"]
  /\ UNCHANGED <<users, tasks, nU, nT, clock>>

\* If assignee changed, pull from previous user's pendingTasks
RtPullPrev(r) ==
  /\ req[r].pc = "rt_pullprev"
  /\ LET c == req[r]
     IN IF c.prevA # "" /\ c.prevA # c.newA
          THEN TxnWrite(r, PullTask(c.vU, c.prevA, c.id), c.vT, [c EXCEPT !.pc = "rt_sync"])
          ELSE Goto(r, [c EXCEPT !.pc = "rt_sync"])
  /\ UNCHANGED <<nU, nT, clock>>

\* variant: the new assignee gets the Task whatever its completed flag
RtSyncAlwaysAdd(r) ==
  /\ req[r].pc = "rt_sync"
  /\ LET c == req[r]
     IN IF c.newA # ""
          THEN TxnWrite(r, AddTask(c.vU, c.newA, c.id), c.vT, [c EXCEPT !.pc = "commit"])
          ELSE Goto(r, [c EXCEPT !.pc = "commit"])
  /\ UNCHANGED <<nU, nT, clock>>

\* completed: pull from the new assignee; otherwise addToSet
RtSync(r) ==
  /\ req[r].pc = "rt_sync"
  /\ LET c == req[r]
     IN IF c.newA # ""
          THEN IF toBoolean(c.completed)
                 THEN TxnWrite(r, PullTask(c.vU, c.newA, c.id), c.vT, [c EXCEPT !.pc = "commit"])
                 ELSE TxnWrite(r, AddTask(c.vU, c.newA, c.id), c.vT, [c EXCEPT !.pc = "commit"])
          ELSE Goto(r, [c EXCEPT !.pc = "commit"])
  /\ UNCHANGED <<nU, nT, clock>>

\* ---------------------------------------------------------------- DELETE /api/tasks/:id
DeleteTaskBegin(r, k) ==
  /\ CanBegin(r, k)
  /\ clock' = clock + 1
  /\ UNCHANGED <<users, tasks, nU, nT>>
  /\ \E id \in TaskTargets(k) :
       LET c0 == Started("DeleteTask", id)
       IN req' = [req EXCEPT ![r] =
            IF id = BadId THEN Caught(c0, "CastError")
            ELSE IF id \notin DOMAIN tasks THEN Aborted(c0, 404, "Task not found", "")
            ELSE [c0 EXCEPT !.pc = "dt_pull", !.prevA = tasks[id].assignedUser]]

\* variant: the Task is deleted without the pull
DtPullOff(r) ==
  /\ req[r].pc = "dt_pull"
  /\ req' = [req EXCEPT ![r].pc = "dt_delete"]
  /\ UNCHANGED <<users, tasks, nU, nT, clock>>

\* if (t.assignedUser) pull the task from that user's pendingTasks
DtPull(r) ==
  /\ req[r].pc = "dt_pull"
  /\ LET c == req[r]
     IN IF c.prevA # ""
          THEN TxnWrite(r, PullTask(c.vU, c.prevA, c.id), c.vT, [c EXCEPT !.pc = "dt_delete"])
          ELSE Goto(r, [c EXCEPT !.pc = "dt_delete"])
  /\ UNCHANGED <<nU, nT, clock>>

\* Task.deleteOne({ _id: t._id }, { session })
DtDelete(r) ==
  /\ req[r].pc = "dt_delete"
  /\ LET c == req[r]
     IN TxnWrite(r, c.vU, Remove(c.vT, c.id), [c EXCEPT !.pc = "commit"])
  /\ UNCHANGED <<nU, nT, clock>>

\* ---------------------------------------------------------------- commit, failure, end
SuccessStatus(op) ==
  CASE op \in {"CreateUser", "CreateTask"} -> 201
    [] op \in {"ReplaceUser", "ReplaceTask"} -> 200
    [] OTHER -> 204

\* the committed collection once the transaction's writes are applied
Merge(committed, view, wset) ==
  [d \in (DOMAIN committed \ wset) \cup (DOMAIN view \cap wset) |->
     IF d \in wset THEN view[d] ELSE committed[d]]

\* await session.commitTransaction(); return res.status(...)
Commit(r) ==
  /\ req[r].pc = "commit"
  /\ LET c == req[r]
     IN /\ users' = Merge(users, c.vU, c.wset)
        /\ tasks' = Merge(tasks, c.vT, c.wset)
        /\ req' = [o \in Reqs |->
                     IF o = r
                       THEN [c EXCEPT !.pc = "end", !.txn = "committed",
                                      !.status = SuccessStatus(c.op),
                                      !.msg = "OK", !.stale = {}]
                     ELSE IF o \in Open
                       THEN [req[o] EXCEPT !.stale = @ \cup c.wset]
                     ELSE req[o]]
  /\ UNCHANGED <<nU, nT, clock>>

\* the store call (or the commit) the request is waiting on throws
Fail(r) ==
  /\ r \in Open
  /\ Catch(r, "Other")
  /\ UNCHANGED <<nU, nT, clock>>

\* finally { session.endSession(); }
EndSession(r) ==
  /\ req[r].pc = "end"
  /\ req' = [req EXCEPT ![r] = Idle]
  /\ UNCHANGED <<users, tasks, nU, nT, clock>>

\* ---------------------------------------------------------------- specification
Init ==
  /\ users = EmptyDocs
  /\ tasks = EmptyDocs
  /\ nU = 0
  /\ nT = 0
  /\ clock = 0
  /\ req = [r \in Reqs |-> Idle]

Step(r) ==
  \/ CuCreate(r) \/ CuTasks(r) \/ CuCleanup(r) \/ CuNorm(r)
  \/ RuUnassign(r) \/ RuTasks(r) \/ RuCleanup(r) \/ RuOverwrite(r)
  \/ DuUnassign(r) \/ DuDelete(r)
  \/ CtCreate(r) \/ CtSync(r)
  \/ RtOverwrite(r) \/ RtPullPrev(r) \/ RtSync(r)
  \/ DtPull(r) \/ DtDelete(r)
  \/ Commit(r)
  \/ Fail(r)
  \/ EndSession(r)

Begin(r, k) ==
  \/ CreateUserBegin(r, k)
  \/ ReplaceUserBegin(r, k)
  \/ DeleteUserBegin(r, k)
  \/ CreateTaskBegin(r, k)
  \/ ReplaceTaskBegin(r, k)
  \/ DeleteTaskBegin(r, k)

\* requests served one at a time
Next == \E r \in Reqs : Begin(r, 1) \/ Step(r)

Spec == Init /\ [][Next]_vars

\* every awaited store call settles and the handler resumes: the event loop
\* runs each pending continuation
SpecLive ==
  /\ Init
  /\ [][Next /\ clock' <= MaxLiveOps]_vars
  /\ WF_vars(\E r \in Reqs : Step(r))

\* two requests served concurrently
NextConc == \E r \in Reqs : Begin(r, 2) \/ Step(r)

\* the concurrent runs start from an empty store, or from the store as
\* POST /api/users {Ann, a@x} followed by POST /api/tasks {assignedUser: u1,
\* completed} leaves it
SeededUsers ==
  [u \in {"u1"} |-> [name |-> "Ann", email |-> "a@x", pendingTasks |-> <<"t1">>,
                     dateCreated |-> 2]]
SeededTasks(done) ==
  [t \in {"t1"} |-> [completed |-> done, assignedUser |-> "u1",
                     assignedUserName |-> "Ann", dateCreated |-> 3]]

InitConc ==
  /\ clock = 0
  /\ req = [r \in Reqs |-> Idle]
  /\ \/ /\ users = EmptyDocs
        /\ tasks = EmptyDocs
        /\ nU = 0
        /\ nT = 0
     \/ /\ users = SeededUsers
        /\ tasks = SeededTasks(FALSE)
        /\ nU = 1
        /\ nT = 1
     \/ /\ users = [SeededUsers EXCEPT !["u1"].pendingTasks = <<>>]
        /\ tasks = SeededTasks(TRUE)
        /\ nU = 1
        /\ nT = 1

SpecConc == InitConc /\ [][NextConc]_vars

\* ---------------------------------------------------------------- properties
Pending(U, u) == SeqToSet(U[u].pendingTasks)
Ended(r) == req[r].pc = "end"
Succeeded(r) == Ended(r) /\ req[r].status \in {200, 201, 204}

\* C1 (I2): for every existing Task T and User U, T is in U.pendingTasks iff
\* T.assignedUser = U and T.completed = false.
C1_PendingIffAssigned ==
  \A t \in DOMAIN tasks : \A u \in DOMAIN users :
    (t \in Pending(users, u)) <=> (tasks[t].assignedUser = u /\ ~tasks[t].completed)

\* a Replace Task has moved a pending Task from one User to another
C1_Witness ==
  \E r \in Reqs :
    /\ Succeeded(r)
    /\ req[r].op = "ReplaceTask"
    /\ req[r].prevA # ""
    /\ req[r].newA \notin {"", req[r].prevA}
    /\ req[r].prevA \in DOMAIN users
    /\ req[r].id \in Pending(req[r].sU, req[r].prevA)
    /\ req[r].id \in Pending(users, req[r].newA)

\* C2 (I3): each Task id is in the pendingTasks of at most one User.
C2_AtMostOnePending ==
  \A t \in TaskIds :
    Cardinality({u \in DOMAIN users : t \in Pending(users, u)}) <= 1

\* a Create/Replace User has taken over a Task that was pending on another User
C2_Witness ==
  \E r \in Reqs :
    /\ Succeeded(r)
    /\ req[r].op \in {"CreateUser", "ReplaceUser"}
    /\ \E t \in SeqToSet(req[r].valid) : \E u \in DOMAIN req[r].sU \ {req[r].id} :
         /\ t \in Pending(req[r].sU, u)
         /\ t \in Pending(users, req[r].id)

\* C3 (I1): every Task's assignedUser is empty or the id of an existing User.
C3_AssigneeExists ==
  \A t \in DOMAIN tasks :
    tasks[t].assignedUser = "" \/ tasks[t].assignedUser \in DOMAIN users

\* C4 (P5): a request that fails after its transaction was opened leaves the
\* committed Users and Tasks exactly as they were before it; nothing of a
\* request that has not committed is visible.
C4_FailureLeavesNoTrace ==
  \A r \in Reqs :
    (req[r].pc # "idle" /\ ~Succeeded(r)) =>
      (users = req[r].sU /\ tasks = req[r].sT)

\* a Replace Task failed after its primary and a compensating write
C4_Witness ==
  \E r \in Reqs :
    /\ Ended(r)
    /\ req[r].op = "ReplaceTask"
    /\ req[r].err = "Other"
    /\ req[r].status = 500
    /\ req[r].id \in req[r].wset
    /\ req[r].wset \cap UserIds # {}

\* the committed version of document d is the one in r's snapshot
Unchanged(r, d) ==
  /\ (d \in DOMAIN users) = (d \in DOMAIN req[r].sU)
  /\ d \in DOMAIN users => users[d] = req[r].sU[d]
  /\ (d \in DOMAIN tasks) = (d \in DOMAIN req[r].sT)
  /\ d \in DOMAIN tasks => tasks[d] = req[r].sT[d]

\* C5: of two concurrent requests that write the same document at most one
\* commits (a request commits only writes to documents nobody committed since
\* its snapshot); the one that meets the conflict ends with the server-error
\* outcome, and a handler body is entered only by a new request, never again
\* by one that failed.
C5_ConflictAbortsOne ==
  [][\A r \in Reqs :
       /\ (req[r].pc = "commit" /\ req'[r].pc = "end" /\ req'[r].status \in {200, 201, 204})
            => \A d \in req[r].wset : Unchanged(r, d)
       /\ (req'[r].pc = "end" /\ req'[r].err = "WriteConflict")
            => (req'[r].status = 500 /\ req'[r].msg = "Server error")
       /\ (req'[r].pc \in FirstPcs /\ req[r].pc # req'[r].pc)
            => req[r].pc = "idle"
       /\ req[r].pc = "end" => req'[r].pc \in {"end", "idle"}]_vars

\* a Replace User and a Replace Task wrote the same Task: one committed, the
\* other met the write conflict
C5_Witness ==
  \E a \in Reqs : \E b \in Reqs \ {a} :
    /\ Succeeded(a)
    /\ Ended(b)
    /\ req[b].err = "WriteConflict"
    /\ {req[a].op, req[b].op} = {"ReplaceUser", "ReplaceTask"}
    /\ \E t \in TaskIds : t \in req[a].wset

\* C6 (P3, I5): no step changes the dateCreated of a User or Task that exists
\* before and after it; in particular a Replace keeps it.
C6_DateCreatedFixed ==
  [][/\ \A u \in DOMAIN users \cap DOMAIN users' :
          users'[u].dateCreated = users[u].dateCreated
     /\ \A t \in DOMAIN tasks \cap DOMAIN tasks' :
          tasks'[t].dateCreated = tasks[t].dateCreated]_vars

\* a Replace User has rewritten a document created earlier
C6_Witness ==
  \E r \in Reqs :
    /\ Succeeded(r)
    /\ req[r].op = "ReplaceUser"
    /\ users[req[r].id] # req[r].sU[req[r].id]
    /\ users[req[r].id].dateCreated < Now

\* C7 (P4): Create Task and Replace Task with a non-existent or malformed
\* assignedUser succeed and store the Task unassigned, in no pendingTasks.
C7_BadAssigneeDowngraded ==
  \A r \in Reqs :
    ( /\ Ended(r)
      /\ req[r].op \in {"CreateTask", "ReplaceTask"}
      /\ req[r].tname # "" /\ req[r].deadline # ""
      /\ req[r].op = "ReplaceTask" =>
           (req[r].completed # "undefined" /\ req[r].id \in DOMAIN req[r].sT)
      /\ req[r].assignee = BadId \/ req[r].assignee \in UserIds \ DOMAIN req[r].sU
      /\ req[r].err # "Other" )
    => ( /\ Succeeded(r)
         /\ tasks[req[r].id].assignedUser = ""
         /\ tasks[req[r].id].assignedUserName = "unassigned"
         /\ \A u \in DOMAIN users : req[r].id \notin Pending(users, u) )

\* Tasks pending on the replaced User before the request and not retained
Dropped(r) ==
  {t \in DOMAIN req[r].sT :
     t \in Pending(req[r].sU, req[r].id) /\ t \notin SeqToSet(req[r].valid)}

\* C8 as stated: Replace User leaves assignedUser and assignedUserName of the
\* Tasks it drops from the User's pendingTasks unchanged.
C8_DroppedTasksKeepAssignee ==
  \A r \in Reqs :
    (Succeeded(r) /\ req[r].op = "ReplaceUser") =>
      \A t \in Dropped(r) :
        /\ tasks[t].assignedUser = req[r].sT[t].assignedUser
        /\ tasks[t].assignedUserName = req[r].sT[t].assignedUserName

\* C8 amended: Replace User unassigns the Tasks it drops: each has
\* assignedUser empty and assignedUserName "unassigned" afterwards, and is
\* no longer in the User's pendingTasks.
C8_DroppedTasksUnassigned ==
  \A r \in Reqs :
    (Succeeded(r) /\ req[r].op = "ReplaceUser") =>
      \A t \in Dropped(r) :
        /\ tasks[t].assignedUser = ""
        /\ tasks[t].assignedUserName = "unassigned"
        /\ tasks[t].completed = req[r].sT[t].completed
        /\ t \notin Pending(users, req[r].id)

\* a Replace User dropped a Task that was pending on the User
C8_Witness ==
  \E r \in Reqs :
    /\ Succeeded(r)
    /\ req[r].op = "ReplaceUser"
    /\ Dropped(r) # {}
    /\ \E t \in Dropped(r) : req[r].sT[t].assignedUser = req[r].id

\* ids of the requested list that named an existing, not completed Task when
\* the request was made
Retained(r) ==
  {t \in SeqToSet(req[r].pend.items) :
     t \in DOMAIN req[r].sT /\ ~req[r].sT[t].completed}

\* C9: after a successful Create/Replace User the stored pendingTasks is
\* exactly the retained ids; every retained Task is assigned to this User
\* under the name of the request; no other User lists a retained Task.
C9_FilteredListStored ==
  \A r \in Reqs :
    (Succeeded(r) /\ req[r].op \in {"CreateUser", "ReplaceUser"}) =>
      /\ Pending(users, req[r].id) = Retained(r)
      /\ \A t \in Retained(r) :
           /\ tasks[t].assignedUser = req[r].id
           /\ tasks[t].assignedUserName = req[r].name
           /\ \A u \in DOMAIN users \ {req[r].id} : t \notin Pending(users, u)

\* the list named a Task that was kept and an id that was dropped (a
\* completed or non-existent Task)
C9_Witness ==
  \E r \in Reqs :
    /\ Succeeded(r)
    /\ req[r].op \in {"CreateUser", "ReplaceUser"}
    /\ Retained(r) # {}
    /\ \E t \in SeqToSet(req[r].pend.items) \ Retained(r) :
         t \in DOMAIN req[r].sT /\ req[r].sT[t].completed

\* C10: after a successful Delete User the User is gone and every Task that
\* was assigned to it and not completed is unassigned; until the commit, and
\* if the request fails, neither the Task updates nor the deletion is visible.
C10_DeleteUserUnassigns ==
  \A r \in Reqs :
    (req[r].op = "DeleteUser" /\ req[r].pc # "idle") =>
      IF Succeeded(r)
        THEN /\ req[r].id \notin DOMAIN users
             /\ \A t \in DOMAIN req[r].sT :
                  (req[r].sT[t].assignedUser = req[r].id /\ ~req[r].sT[t].completed) =>
                    /\ t \in DOMAIN tasks
                    /\ tasks[t].assignedUser = ""
                    /\ tasks[t].assignedUserName = "unassigned"
        ELSE users = req[r].sU /\ tasks = req[r].sT

\* a User with a pending Task was deleted
C10_Witness ==
  \E r \in Reqs :
    /\ Succeeded(r)
    /\ req[r].op = "DeleteUser"
    /\ \E t \in DOMAIN req[r].sT :
         req[r].sT[t].assignedUser = req[r].id /\ ~req[r].sT[t].completed

\* the assignee a Replace Task resolves from its body: the id when it names a
\* User of the snapshot, else none
Resolved(r) ==
  IF req[r].assignee \in DOMAIN req[r].sU THEN req[r].assignee ELSE ""

C12_DeleteTaskPulls ==
  \A r \in Reqs :
    (req[r].op = "DeleteTask" /\ req[r].pc # "idle") =>
      IF Succeeded(r)
        THEN /\ req[r].id \notin DOMAIN tasks
             /\ \A u \in DOMAIN users : req[r].id \notin Pending(users, u)
             /\ \A t \in DOMAIN tasks : tasks[t] = req[r].sT[t]
             /\ \A u \in DOMAIN users :
                  /\ u \in DOMAIN req[r].sU
                  /\ users[u] = [req[r].sU[u] EXCEPT !.pendingTasks = Pull(@, {req[r].id})]
        ELSE users = req[r].sU /\ tasks = req[r].sT

\* a Task pending on a User was deleted
C12_Witness ==
  \E r \in Reqs :
    /\ Succeeded(r)
    /\ req[r].op = "DeleteTask"
    /\ \E u \in DOMAIN req[r].sU : req[r].id \in Pending(req[r].sU, u)

\* the response of r is out (status set) only in these transaction states
Released(r) ==
  /\ req[r].status # 0 => req[r].txn \in {"committed", "aborted"}
  /\ req[r].status \in {200, 201, 204} => req[r].txn = "committed"
  /\ req[r].status \in {400, 404, 500} => req[r].txn = "aborted"

\* C13: every request that opens a transaction eventually has it committed
\* or aborted, on every exit path; the session is ended only after that; a
\* success response is out only once the transaction is committed, an error
\* response only once it is aborted.
C13_TransactionReleased ==
  /\ [](\A r \in Reqs : Released(r))
  /\ [][\A r \in Reqs :
          (req[r].txn = "active" /\ req'[r].txn # "active") =>
            (req'[r].txn \in {"committed", "aborted"} /\ req'[r].status # 0)]_vars
  /\ \A r \in Reqs :
       (req[r].txn = "active") ~> (req[r].txn \in {"committed", "aborted"})

\* an exit path through the catch block: a store call of a Replace User threw
\* after the handler had written
C13_Witness ==
  \E r \in Reqs :
    /\ Ended(r)
    /\ req[r].op = "ReplaceUser"
    /\ req[r].err = "Other"
    /\ req[r].wset # {}
    /\ req[r].txn = "aborted"
    /\ req[r].status = 500

\* C14: a duplicate email that the store's unique index reports at write
\* time gets the outcome the pre-check gives (400 "Email already exists"),
\* for Create User and for Replace User.
C14_DuplicateSameOutcome ==
  \A r \in Reqs :
    (Ended(r) /\ req[r].op \in {"CreateUser", "ReplaceUser"} /\ req[r].err = "E11000") =>
      (req[r].status = 400 /\ req[r].msg = "Email already exists")

\* C15: in every committed state, under any interleaving of Create User and
\* Replace User, no two Users have the same email; a Replace User that keeps
\* the User's own email is not rejected as a duplicate.
C15_EmailUnique ==
  /\ \A u \in DOMAIN users : \A v \in DOMAIN users \ {u} :
       users[u].email # users[v].email
  /\ \A r \in Reqs :
       ( /\ Ended(r)
         /\ req[r].op = "ReplaceUser"
         /\ req[r].id \in DOMAIN req[r].sU
         /\ NormEmail(req[r].email) = req[r].sU[req[r].id].email )
       => req[r].msg # "Email already exists"

\* two concurrent requests asked for the same email for different Users: one
\* committed, the other was stopped at its write
C15_Witness ==
  \E a \in Reqs : \E b \in Reqs \ {a} :
    /\ Succeeded(a)
    /\ Ended(b)
    /\ {req[a].op, req[b].op} \subseteq {"CreateUser", "ReplaceUser"}
    /\ req[a].id # req[b].id
    /\ NormEmail(req[a].email) = NormEmail(req[b].email)
    /\ req[b].err \in {"E11000", "WriteConflict"}
    /\ users[req[a].id].email = NormEmail(req[b].email)

\* the request lacks a required field, names a target that does not exist, or
\* asks for an email another User has
Rejectable(r) ==
  LET c == req[r]
      taken == \E u \in DOMAIN c.sU \ {c.id} : c.sU[u].email = NormEmail(c.email)
  IN CASE c.op = "CreateUser" -> c.name = "" \/ c.email = "" \/ taken
       [] c.op = "ReplaceUser" ->
            c.id \in UserIds /\ (\/ c.id \notin DOMAIN c.sU
                                 \/ c.name = "" \/ c.email = "" \/ ~c.pend.isArray
                                 \/ taken)
       [] c.op = "DeleteUser" -> c.id \in UserIds \ DOMAIN c.sU
       [] c.op = "CreateTask" -> c.tname = "" \/ c.deadline = ""
       [] c.op = "ReplaceTask" ->
            c.id \in TaskIds /\ (\/ c.id \notin DOMAIN c.sT
                                 \/ c.tname = "" \/ c.deadline = ""
                                 \/ c.completed = "undefined")
       [] c.op = "DeleteTask" -> c.id \in TaskIds \ DOMAIN c.sT
       [] OTHER -> FALSE

\* C16: a request with a missing required field, a non-existent target or an
\* email in use is rejected (400 or 404) before any write: no User and no
\* Task differs from the state before the request.
C16_RejectedChangesNothing ==
  \A r \in Reqs :
    (req[r].pc # "idle" /\ Rejectable(r)) =>
      /\ Ended(r)
      /\ req[r].status \in {400, 404}
      /\ req[r].wset = {}
      /\ users = req[r].sU
      /\ tasks = req[r].sT

\* a Replace Task without the completed flag was rejected while the Task was
\* pending on a User
C16_Witness ==
  \E r \in Reqs :
    /\ Ended(r)
    /\ req[r].op = "ReplaceTask"
    /\ req[r].id \in DOMAIN req[r].sT
    /\ req[r].completed = "undefined"
    /\ req[r].assignee # req[r].sT[req[r].id].assignedUser
    /\ req[r].status = 400
    /\ \E u \in DOMAIN users : req[r].id \in Pending(users, u)

\* the Tasks a request assigns: the Task of a Create/Replace Task, the
\* retained Tasks of a Create/Replace User
AssignedBy(r) ==
  CASE req[r].op \in {"CreateTask", "ReplaceTask"} -> {req[r].id}
    [] req[r].op \in {"CreateUser", "ReplaceUser"} -> Retained(r)
    [] OTHER -> {}

\* C17 (I4): a Task with empty assignedUser has assignedUserName
\* "unassigned"; a Task a request assigns gets the name its User has as of
\* that request (for Create/Replace User the name of the request); until it
\* is assigned again or unassigned, the cached name stays what it was.
C17_NameOfLastAssignment ==
  [][\A t \in DOMAIN tasks' :
       LET a == tasks'[t].assignedUser
           by == {r \in Reqs : req[r].pc = "commit" /\ req'[r].pc = "end"
                               /\ req'[r].status \in {200, 201, 204}
                               /\ t \in AssignedBy(r)}
       IN /\ a = "" => tasks'[t].assignedUserName = "unassigned"
          /\ (a # "" /\ by # {}) =>
               /\ a \in DOMAIN users'
               /\ tasks'[t].assignedUserName = users'[a].name
               /\ \A r \in by : req[r].op \in {"CreateUser", "ReplaceUser"} =>
                    (a = req[r].id /\ tasks'[t].assignedUserName = req[r].name)
          /\ (a # "" /\ by = {}) =>
               /\ t \in DOMAIN tasks
               /\ tasks[t].assignedUser = a
               /\ tasks[t].assignedUserName = tasks'[t].assignedUserName]_vars

\* a Replace User renamed a User that a completed Task is assigned to: the
\* Task keeps the name of its last assignment
C17_Witness ==
  \E r \in Reqs :
    /\ Succeeded(r)
    /\ req[r].op = "ReplaceUser"
    /\ \E t \in DOMAIN tasks :
         /\ tasks[t].assignedUser = req[r].id
         /\ tasks[t].assignedUserName = req[r].sU[req[r].id].name
         /\ tasks[t].assignedUserName # users[req[r].id].name
    /\ \E t \in Retained(r) : tasks[t].assignedUserName = req[r].name

\* C19: every id in a User's pendingTasks names an existing Task that is not
\* completed, and no pendingTasks list holds an id twice.
C19_PendingWellFormed ==
  \A u \in DOMAIN users :
    LET l == users[u].pendingTasks
    IN /\ \A i \in DOMAIN l : l[i] \in DOMAIN tasks /\ ~tasks[l[i]].completed
       /\ \A i \in DOMAIN l : \A j \in DOMAIN l : l[i] = l[j] => i = j

\* a Create/Replace User whose list names a Task twice kept it once
C19_Witness ==
  \E r \in Reqs :
    /\ Succeeded(r)
    /\ req[r].op \in {"CreateUser", "ReplaceUser"}
    /\ req[r].pend.items = <<"t2", "t2">>
    /\ users[req[r].id].pendingTasks = <<"t2">>

\* C20: every Task that is not completed and has a non-empty assignedUser
\* carries the current name of that User.
C20_PendingNameCurrent ==
  \A t \in DOMAIN tasks :
    (~tasks[t].completed /\ tasks[t].assignedUser # "") =>
      /\ tasks[t].assignedUser \in DOMAIN users
      /\ tasks[t].assignedUserName = users[tasks[t].assignedUser].name

\* a Replace User changed the name of a User and retained a Task that was
\* already pending on it
C20_Witness ==
  \E r \in Reqs :
    /\ Succeeded(r)
    /\ req[r].op = "ReplaceUser"
    /\ req[r].sU[req[r].id].name # users[req[r].id].name
    /\ \E t \in Retained(r) :
         /\ t \in Pending(req[r].sU, req[r].id)
         /\ ~tasks[t].completed
         /\ tasks[t].assignedUser = req[r].id

\* ---------------------------------------------------------------- one request at a time
\* What each handler makes of the collections U, T when nothing else runs:
\* [ok, U, T], ok false when the request is not answered with success.
Rejected(U, T) == [ok |-> FALSE, U |-> U, T |-> T]

SerialCreateUser(c, U, T) ==
  LET items == IF c.pend.isArray THEN c.pend.items ELSE <<>>
      valid == ValidTasks(T, items)
      U1 == Extend(U, c.id, CreatedUser(c))
      T1 == IF Len(valid) > 0 THEN AssignTasks(T, valid, c.id, c.name) ELSE T
      U2 == IF Len(valid) > 0 THEN CrossUserCleanup(U1, valid, c.id) ELSE U1
  IN IF \/ c.name = "" \/ c.email = ""
        \/ \E u \in DOMAIN U : U[u].email = NormEmail(c.email)
        \/ BadId \in SeqToSet(items)
       THEN Rejected(U, T)
       ELSE [ok |-> TRUE, U |-> [U2 EXCEPT ![c.id].pendingTasks = valid], T |-> T1]

SerialReplaceUser(c, U, T) ==
  IF \/ c.id \notin DOMAIN U
     \/ c.name = "" \/ c.email = "" \/ ~c.pend.isArray
     \/ \E u \in DOMAIN U \ {c.id} : U[u].email = NormEmail(c.email)
     \/ BadId \in SeqToSet(c.pend.items)
    THEN Rejected(U, T)
    ELSE LET T1 == UnassignPending(T, c.id)
             valid == ValidTasks(T1, c.pend.items)
             T2 == IF Len(valid) > 0 THEN AssignTasks(T1, valid, c.id, c.name) ELSE T1
             U1 == IF Len(valid) > 0 THEN CrossUserCleanup(U, valid, c.id) ELSE U
             doc == ReplacedUser([c EXCEPT !.valid = valid, !.vU = U1,
                                           !.orig = U[c.id].dateCreated])
         IN [ok |-> TRUE, U |-> [U1 EXCEPT ![c.id] = doc], T |-> T2]

SerialDeleteUser(c, U, T) ==
  IF c.id \notin DOMAIN U
    THEN Rejected(U, T)
    ELSE [ok |-> TRUE, U |-> Remove(U, c.id), T |-> UnassignPending(T, c.id)]

SerialCreateTask(c, U, T) ==
  LET a == ResolveAssignee(U, c.assignee)
      doc == CreatedTask([c EXCEPT !.newA = a.id, !.newAName = a.name])
  IN IF c.tname = "" \/ c.deadline = "" \/ a.err # ""
       THEN Rejected(U, T)
       ELSE [ok |-> TRUE,
             U |-> IF a.id # "" /\ ~toBoolean(c.completed)
                     THEN AddTask(U, a.id, c.id) ELSE U,
             T |-> Extend(T, c.id, doc)]

SerialReplaceTask(c, U, T) ==
  LET a == ResolveAssignee(U, c.assignee) IN
  IF \/ c.id \notin DOMAIN T
     \/ c.tname = "" \/ c.deadline = "" \/ c.completed = "undefined"
     \/ a.err # ""
    THEN Rejected(U, T)
    ELSE LET prev == T[c.id].assignedUser
             doc == ReplacedTask([c EXCEPT !.newA = a.id, !.newAName = a.name,
                                           !.orig = T[c.id].dateCreated])
             U1 == IF prev # "" /\ prev # a.id THEN PullTask(U, prev, c.id) ELSE U
             U2 == IF a.id = "" THEN U1
                   ELSE IF toBoolean(c.completed) THEN PullTask(U1, a.id, c.id)
                   ELSE AddTask(U1, a.id, c.id)
         IN [ok |-> TRUE, U |-> U2, T |-> [T EXCEPT ![c.id] = doc]]

SerialDeleteTask(c, U, T) ==
  IF c.id \notin DOMAIN T
    THEN Rejected(U, T)
    ELSE [ok |-> TRUE,
          U |-> IF T[c.id].assignedUser # ""
                  THEN PullTask(U, T[c.id].assignedUser, c.id) ELSE U,
          T |-> Remove(T, c.id)]

Serial(c, U, T) ==
  CASE c.op = "CreateUser" -> SerialCreateUser(c, U, T)
    [] c.op = "ReplaceUser" -> SerialReplaceUser(c, U, T)
    [] c.op = "DeleteUser" -> SerialDeleteUser(c, U, T)
    [] c.op = "CreateTask" -> SerialCreateTask(c, U, T)
    [] c.op = "ReplaceTask" -> SerialReplaceTask(c, U, T)
    [] c.op = "DeleteTask" -> SerialDeleteTask(c, U, T)
    [] OTHER -> Rejected(U, T)

\* request a, then request b, from the collections U, T
SerialBoth(a, b, U, T) ==
  LET s1 == Serial(a, U, T)
      s2 == Serial(b, s1.U, s1.T)
  IN [ok |-> s1.ok /\ s2.ok, U |-> s2.U, T |-> s2.T]

\* the documents without the time of their creation (the order of two
\* requests decides which document is the older one)
Erase(D) == [d \in DOMAIN D |-> [D[d] EXCEPT !.dateCreated = 0]]

SameAs(s) == s.ok /\ Erase(users) = Erase(s.U) /\ Erase(tasks) = Erase(s.T)

\* a and b are the only two requests of the run so far and were given the
\* same snapshot
Together(a, b) ==
  /\ Ended(a) /\ Ended(b)
  /\ clock = 2
  /\ req[a].sU = req[b].sU
  /\ req[a].sT = req[b].sT

\* the committed state is what a then b, or b then a, gives from their snapshot
SomeOrder(a, b) ==
  \/ SameAs(SerialBoth(req[a], req[b], req[a].sU, req[a].sT))
  \/ SameAs(SerialBoth(req[b], req[a], req[a].sU, req[a].sT))

\* C18: the committed state after concurrent requests is the state some
\* one-at-a-time order of the committed requests gives: for two committed
\* requests that ran on the same snapshot, one of the two orders; for one
\* committed beside one that failed, the committed one alone.  I2 and I3
\* hold in every committed state.
C18_Serializable ==
  /\ C1_PendingIffAssigned
  /\ C2_AtMostOnePending
  /\ \A a \in Reqs : \A b \in Reqs \ {a} :
       (Together(a, b) /\ Succeeded(a)) =>
         IF Succeeded(b) THEN SomeOrder(a, b)
         ELSE SameAs(Serial(req[a], req[a].sU, req[a].sT))

\* C21: Replace User is idempotent.  The committed state after a successful
\* Replace User is what the handler makes of the snapshot, and the same
\* request run on it once more succeeds and gives that state again; and a
\* Replace User that finds the User already as it asks (name, email, the
\* retained list) changes no User and no Task.
C21_ReplaceUserIdempotent ==
  \A r \in Reqs :
    (Succeeded(r) /\ req[r].op = "ReplaceUser") =>
      LET once == SerialReplaceUser(req[r], req[r].sU, req[r].sT)
          twice == SerialReplaceUser(req[r], users, tasks)
          was == req[r].sU[req[r].id]
      IN /\ once.ok /\ users = once.U /\ tasks = once.T
         /\ twice.ok /\ twice.U = users /\ twice.T = tasks
         /\ ( /\ was.name = req[r].name
              /\ was.email = NormEmail(req[r].email)
              /\ was.pendingTasks = Distinct(Retained(r)) )
            => (users = req[r].sU /\ tasks = req[r].sT)

\* a Replace User found the User already as it asks, with a retained Task
\* named twice in its list: it wrote (unassign, assign again) and changed
\* nothing
C21_Witness ==
  \E r \in Reqs :
    /\ Succeeded(r)
    /\ req[r].op = "ReplaceUser"
    /\ Retained(r) # {}
    /\ req[r].wset # {}
    /\ users = req[r].sU
    /\ tasks = req[r].sT
    /\ req[r].pend.items = <<"t2", "t2">>

====
